---------------------------- MODULE Spec2Model ----------------------------
(***************************************************************************)
(* A model of src/script.py: a single-process simulation of a              *)
(* Proof-of-Stake network (Transaction, Block, Blockchain, ValidatorNode,  *)
(* NetworkSimulator).                                                      *)
(*                                                                         *)
(* Python objects that are mutated and shared by reference (Blockchain)    *)
(* live in a heap, `blockchains`, and are referred to by object id; values *)
(* that are never mutated after construction (Transaction, Block) are      *)
(* records.  SHA-256 is modelled as a collision-free digest: the hex       *)
(* digest of a string s is the string "sha256(s)".                         *)
(***************************************************************************)
EXTENDS Integers, Sequences, FiniteSets, TLC

\* ------------------------------------------------------------- bounds
\* Number of validator nodes handed to NetworkSimulator(num_nodes).
NumNodes == 2
\* Number of receive_transaction calls the API driver makes.
MaxTx == 6
\* Longest chain (genesis included) any Blockchain object grows to.
MaxChain == 2
\* Rounds of run_simulation (its num_blocks_to_create argument).
MaxRounds == 2

\* --------------------------------------------------- program constants
\* propose_block takes self.mempool[:5] and keeps self.mempool[5:].
BatchSize == 5
\* random.randint(3, 8) transactions are attempted per round.
TxPerRoundMin == 3
TxPerRoundMax == 8
\* random.sample(self.nodes, k=min(3, len(self.nodes))).
FanOut == 3
\* random.randint(10, 1000) is a node's stake.
StakeMin == 10
StakeMax == 1000

VARIABLES
    nodes,        \* NetworkSimulator.nodes: index -> ValidatorNode fields
    blockchains,  \* heap of Blockchain objects: object id -> [chain |-> <<Block>>]
    clock,        \* what time.time() returns
    call,         \* the call that was made last: operation, arguments, return value
    tx_made,      \* Transaction objects constructed so far
    pc,           \* run_simulation: the statement it is at
    round,        \* run_simulation: the loop variable i
    todo,         \* run_simulation: iterations left of the transaction loop
    validator,    \* run_simulation: index of the selected validator (-1: none yet)
    new_block,    \* run_simulation: the proposed block, <<>> for None
    cursor,       \* run_simulation: position of `for node in self.nodes`
    outcome,      \* run_simulation: per node, what its apply step of this round returned
    start,        \* per node, the head hash and length of its chain when the round began
    proposals     \* history: rounds so far in which propose_block returned a block

vars == <<nodes, blockchains, clock, call, tx_made,
          pc, round, todo, validator, new_block, cursor, outcome, start,
          proposals>>
simVars == <<pc, round, todo, validator, new_block, cursor, outcome, start,
             proposals>>

NodeIds == 0 .. (NumNodes - 1)

Min(a, b) == IF a < b THEN a ELSE b

\* -------------------------------------------------------------- hashing
Sha256(s) == "sha256(" \o s \o ")"

\* f'validator_node_{i}_' + <hex digest of a random number>
Address(i) == "validator_node_" \o ToString(i) \o "_" \o Sha256("r" \o ToString(i))

\* ---------------------------------------------------------- Transaction
Transaction(sender, recipient, amount, now) ==
    [sender    |-> sender,
     recipient |-> recipient,
     amount    |-> amount,
     timestamp |-> now,
     signature |-> "signed_by_" \o sender]

to_dict(tx) ==
    [sender    |-> tx.sender,
     recipient |-> tx.recipient,
     amount    |-> tx.amount,
     timestamp |-> tx.timestamp,
     signature |-> tx.signature]

\* json.dumps(d, sort_keys=True) of a transaction dictionary.
JsonTx(d) ==
    "{\"amount\": " \o ToString(d.amount)
    \o ", \"recipient\": \"" \o d.recipient
    \o "\", \"sender\": \"" \o d.sender
    \o "\", \"signature\": \"" \o d.signature
    \o "\", \"timestamp\": " \o ToString(d.timestamp) \o "}"

RECURSIVE JsonTxItems(_)
JsonTxItems(ds) ==
    IF ds = <<>> THEN ""
    ELSE IF Len(ds) = 1 THEN JsonTx(ds[1])
    ELSE JsonTx(ds[1]) \o ", " \o JsonTxItems(Tail(ds))

\* ---------------------------------------------------------------- Block
\* json.dumps({...}, sort_keys=True) of the hashed fields of a block.
BlockString(b) ==
    "{\"index\": " \o ToString(b.index)
    \o ", \"previous_hash\": \"" \o b.previous_hash
    \o "\", \"timestamp\": " \o ToString(b.timestamp)
    \o ", \"transactions\": [" \o JsonTxItems(b.transactions)
    \o "], \"validator\": \"" \o b.validator \o "\"}"

calculate_hash(b) == Sha256(BlockString(b))

\* Mutant: __init__ computes the hash before it stores the transactions.
Block_hashed_early(index, transactions, previous_hash, validator_, now) ==
    LET fields == [index         |-> index,
                   timestamp     |-> now,
                   transactions  |-> [k \in 1 .. Len(transactions)
                                        |-> to_dict(transactions[k])],
                   previous_hash |-> previous_hash,
                   validator     |-> validator_]
    IN  [index         |-> fields.index,
         timestamp     |-> fields.timestamp,
         transactions  |-> fields.transactions,
         previous_hash |-> fields.previous_hash,
         validator     |-> fields.validator,
         hash          |-> calculate_hash([fields EXCEPT !.transactions = <<>>])]

Block(index, transactions, previous_hash, validator_, now) ==
    LET fields == [index         |-> index,
                   timestamp     |-> now,
                   transactions  |-> [k \in 1 .. Len(transactions)
                                        |-> to_dict(transactions[k])],
                   previous_hash |-> previous_hash,
                   validator     |-> validator_]
    IN  [index         |-> fields.index,
         timestamp     |-> fields.timestamp,
         transactions  |-> fields.transactions,
         previous_hash |-> fields.previous_hash,
         validator     |-> fields.validator,
         hash          |-> calculate_hash(fields)]

\* ----------------------------------------------------------- Blockchain
GenesisBlock(now) == Block(0, <<>>, "0", "genesis", now)

\* Blockchain(): an object whose chain holds the genesis block.
NewBlockchain(now) == [chain |-> <<GenesisBlock(now)>>]

latest_block(bc) == bc.chain[Len(bc.chain)]

\* Mutant: add_block without its linkage test.
add_block_links_unchecked(bc, block) == TRUE

\* The test of add_block: the block links to the latest block.
add_block_links(bc, block) == block.previous_hash = latest_block(bc).hash

\* Mutant: add_block overwrites the latest block (self.chain[-1] = block).
add_block_chain_replacing(bc, block) ==
    IF add_block_links(bc, block)
    THEN [bc EXCEPT !.chain = Append(SubSeq(@, 1, Len(@) - 1), block)]
    ELSE bc

\* Mutant: add_block reports the failure but appends all the same.
add_block_chain_always(bc, block) == [bc EXCEPT !.chain = Append(@, block)]

\* The Blockchain object after add_block(block), and what the call returns.
add_block_chain(bc, block) ==
    IF add_block_links(bc, block)
    THEN [bc EXCEPT !.chain = Append(@, block)]
    ELSE bc

add_block_returns(bc, block) == add_block_links(bc, block)

\* -------------------------------------------------------- ValidatorNode
ValidatorNode(address, stake, blockchain) ==
    [address    |-> address,
     stake      |-> stake,
     mempool    |-> <<>>,
     blockchain |-> blockchain]

\* The Blockchain object a node's self.blockchain refers to.
ChainOf(n) == blockchains[nodes[n].blockchain]

\* Mutant: propose_block empties the mempool (self.mempool = []).
mempool_rest_cleared(mempool) == <<>>

\* self.mempool[:5] and self.mempool[5:]
mempool_head(mempool) == SubSeq(mempool, 1, Min(BatchSize, Len(mempool)))

mempool_rest(mempool) == SubSeq(mempool, BatchSize + 1, Len(mempool))

\* Mutant: propose_block reuses the index of the latest block.
proposed_block_same_index(node, bc, now) ==
    Block(latest_block(bc).index,
          mempool_head(node.mempool),
          latest_block(bc).hash,
          node.address,
          now)

\* The Block propose_block builds on a node with a non-empty mempool.
proposed_block(node, bc, now) ==
    Block(latest_block(bc).index + 1,
          mempool_head(node.mempool),
          latest_block(bc).hash,
          node.address,
          now)

\* Mutant: validate_and_add_block without its integrity check.
hash_is_intact_unchecked(block) == TRUE

\* The two checks of validate_and_add_block.
hash_is_intact(block) == block.hash = calculate_hash(block)

validate_accepts(bc, block) ==
    /\ hash_is_intact(block)
    /\ block.previous_hash = latest_block(bc).hash

\* A call record: Optional values are sequences of length at most one.
Call(op, n, block, ok, result) ==
    [op |-> op, node |-> n, block |-> block, ok |-> ok, result |-> result]

\* Mutant: receive_transaction drops a transaction the mempool already holds.
receive_transaction_dedup(n, tx) ==
    /\ nodes' = [nodes EXCEPT ![n].mempool =
                    IF \E k \in 1 .. Len(@) : @[k] = tx THEN @ ELSE Append(@, tx)]
    /\ call' = Call("receive_transaction", n, <<>>, TRUE, <<>>)
    /\ UNCHANGED blockchains

receive_transaction(n, tx) ==
    /\ nodes' = [nodes EXCEPT ![n].mempool = Append(@, tx)]
    /\ call' = Call("receive_transaction", n, <<>>, TRUE, <<>>)
    /\ UNCHANGED blockchains

\* Mutant: propose_block also appends the block it built to the node's chain.
propose_block_appending(n) ==
    IF nodes[n].mempool = <<>>
    THEN /\ call' = Call("propose_block", n, <<>>, FALSE, <<>>)
         /\ UNCHANGED <<nodes, blockchains>>
    ELSE /\ nodes' = [nodes EXCEPT ![n].mempool = mempool_rest(@)]
         /\ call' = Call("propose_block", n, <<>>, TRUE,
                         <<proposed_block(nodes[n], ChainOf(n), clock)>>)
         /\ blockchains' = [blockchains EXCEPT ![nodes[n].blockchain] =
                add_block_chain(@, proposed_block(nodes[n], ChainOf(n), clock))]

\* Mutant: propose_block without its `if not self.mempool` test.
propose_block_unguarded(n) ==
    /\ nodes' = [nodes EXCEPT ![n].mempool = mempool_rest(@)]
    /\ call' = Call("propose_block", n, <<>>, TRUE,
                    <<proposed_block(nodes[n], ChainOf(n), clock)>>)
    /\ UNCHANGED blockchains

propose_block(n) ==
    IF nodes[n].mempool = <<>>
    THEN /\ call' = Call("propose_block", n, <<>>, FALSE, <<>>)
         /\ UNCHANGED <<nodes, blockchains>>
    ELSE /\ nodes' = [nodes EXCEPT ![n].mempool = mempool_rest(@)]
         /\ call' = Call("propose_block", n, <<>>, TRUE,
                         <<proposed_block(nodes[n], ChainOf(n), clock)>>)
         /\ UNCHANGED blockchains

\* node.blockchain.add_block(block)
add_block(n, block) ==
    /\ blockchains' = [blockchains EXCEPT
                         ![nodes[n].blockchain] = add_block_chain(@, block)]
    /\ call' = Call("add_block", n, <<block>>,
                    add_block_returns(ChainOf(n), block), <<>>)
    /\ UNCHANGED nodes

\* Mutant: validate_and_add_block appends first and validates afterwards.
validate_and_add_block_eager(n, block) ==
    /\ blockchains' = [blockchains EXCEPT
                         ![nodes[n].blockchain].chain = Append(@, block)]
    /\ call' = Call("validate_and_add_block", n, <<block>>,
                    validate_accepts(ChainOf(n), block), <<>>)
    /\ UNCHANGED nodes

validate_and_add_block(n, block) ==
    IF validate_accepts(ChainOf(n), block)
    THEN /\ blockchains' = [blockchains EXCEPT
                              ![nodes[n].blockchain] = add_block_chain(@, block)]
         /\ call' = Call("validate_and_add_block", n, <<block>>, TRUE, <<>>)
         /\ UNCHANGED nodes
    ELSE /\ call' = Call("validate_and_add_block", n, <<block>>, FALSE, <<>>)
         /\ UNCHANGED <<nodes, blockchains>>

\* ----------------------------------------------------- NetworkSimulator
\* random.randint(10, 1000): the stakes drawn alternate between the two ends.
Stake(i) == IF i % 2 = 0 THEN StakeMin ELSE StakeMax

\* NetworkSimulator(num_nodes): one Blockchain object, handed to every node.
Init ==
    /\ clock = 0
    /\ blockchains = [ref \in {0} |-> NewBlockchain(0)]
    /\ nodes = [i \in NodeIds |-> ValidatorNode(Address(i), Stake(i), 0)]
    /\ call = Call("init", 0, <<>>, TRUE, <<>>)
    /\ tx_made = 0
    /\ pc = "round"
    /\ round = 0
    /\ todo = 0
    /\ validator = -1
    /\ new_block = <<>>
    /\ cursor = 0
    /\ outcome = [i \in NodeIds |-> "none"]
    /\ start = [i \in NodeIds |-> [hash |-> GenesisBlock(0).hash, len |-> 1]]
    /\ proposals = 0

\* select_validator: random.choices draws a node of positive weight.
select_validator == {n \in NodeIds : nodes[n].stake > 0}

\* time.sleep(1)
Sleep == clock' = clock + 1

\* random.choice(self.nodes) for the sender and for the recipient, sampled.
SenderDraws == {0}
RecipientDraws == {0, 1} \cap NodeIds

\* random.sample(self.nodes, k=min(3, len(self.nodes))), as a set of nodes.
Samples == {S \in SUBSET NodeIds : Cardinality(S) = Min(FanOut, NumNodes)}

\* The sample is walked in ascending order of node index: its last node.
LastOf(S) == CHOOSE n \in S : \A m \in S : m <= n

\* `for i in range(num_blocks_to_create)`: the next round, or the end.
RoundStart ==
    /\ pc = "round"
    /\ IF round < MaxRounds
       THEN /\ \E k \in TxPerRoundMin .. TxPerRoundMax : todo' = k
            /\ pc' = "generate"
            /\ outcome' = [i \in NodeIds |-> "none"]
            /\ validator' = -1
            /\ new_block' = <<>>
            /\ start' = [i \in NodeIds |->
                           [hash |-> latest_block(ChainOf(i)).hash,
                            len  |-> Len(ChainOf(i).chain)]]
       ELSE /\ pc' = "finished"
            /\ UNCHANGED <<todo, outcome, validator, new_block, start>>
    /\ UNCHANGED <<nodes, blockchains, clock, call, tx_made, round, cursor,
                   proposals>>

\* One iteration of the transaction loop; the k-th Transaction constructed
\* carries amount k (random.uniform draws are pairwise distinct).
Generate ==
    /\ pc = "generate"
    /\ todo > 0
    /\ todo' = todo - 1
    /\ \E s \in SenderDraws, r \in RecipientDraws :
          IF s = r
          THEN UNCHANGED <<nodes, call, tx_made>>
          ELSE LET tx == Transaction(nodes[s].address, nodes[r].address,
                                     tx_made + 1, clock)
               IN  \E S \in Samples :
                     /\ nodes' = [n \in NodeIds |->
                                    IF n \in S
                                    THEN [nodes[n] EXCEPT !.mempool = Append(@, tx)]
                                    ELSE nodes[n]]
                     /\ call' = Call("receive_transaction", LastOf(S), <<>>, TRUE, <<>>)
                     /\ tx_made' = tx_made + 1
    /\ UNCHANGED <<blockchains, clock, pc, round, validator, new_block, cursor,
                   outcome, start, proposals>>

\* The transaction loop is over: sleep, select the validator, sleep.
Select ==
    /\ pc = "generate"
    /\ todo = 0
    /\ \E v \in select_validator : validator' = v
    /\ clock' = clock + 2
    /\ pc' = "propose"
    /\ UNCHANGED <<nodes, blockchains, call, tx_made, round, todo, new_block, cursor,
                   outcome, start, proposals>>

\* validator.propose_block(); None ends the round.
Propose ==
    /\ pc = "propose"
    /\ propose_block(validator)
    /\ IF call'.result = <<>>
       THEN /\ round' = round + 1
            /\ pc' = "round"
            /\ UNCHANGED <<clock, new_block, cursor, proposals>>
       ELSE /\ new_block' = call'.result
            /\ proposals' = proposals + 1
            /\ Sleep
            /\ cursor' = 0
            /\ pc' = "broadcast"
            /\ UNCHANGED round
    /\ UNCHANGED <<tx_made, todo, validator, outcome, start>>

\* Mutant: a rejected block raises, which ends run_simulation.
Broadcast_raising ==
    /\ pc = "broadcast"
    /\ cursor < NumNodes
    /\ IF cursor = validator
       THEN add_block(cursor, new_block[1])
       ELSE validate_and_add_block(cursor, new_block[1])
    /\ outcome' = [outcome EXCEPT ![cursor] = IF call'.ok THEN "applied" ELSE "rejected"]
    /\ IF call'.ok
       THEN cursor' = cursor + 1 /\ pc' = pc
       ELSE cursor' = cursor /\ pc' = "finished"
    /\ UNCHANGED <<clock, tx_made, round, todo, validator, new_block, start,
                   proposals>>

\* One iteration of `for node in self.nodes`.
Broadcast ==
    /\ pc = "broadcast"
    /\ cursor < NumNodes
    /\ IF cursor = validator
       THEN add_block(cursor, new_block[1])
       ELSE validate_and_add_block(cursor, new_block[1])
    /\ outcome' = [outcome EXCEPT ![cursor] = IF call'.ok THEN "applied" ELSE "rejected"]
    /\ cursor' = cursor + 1
    /\ UNCHANGED <<clock, tx_made, pc, round, todo, validator, new_block, start,
                   proposals>>

\* The node loop is over: the next round.
EndRound ==
    /\ pc = "broadcast"
    /\ cursor = NumNodes
    /\ round' = round + 1
    /\ pc' = "round"
    /\ UNCHANGED <<nodes, blockchains, clock, call, tx_made, todo, validator,
                   new_block, cursor, outcome, start, proposals>>

SimNext == RoundStart \/ Generate \/ Select \/ Propose \/ Broadcast \/ EndRound

\* run_simulation(MaxRounds) on NetworkSimulator(NumNodes).
SimSpec == Init /\ [][SimNext]_vars

\* ------------------------------------------------------------ API driver
\* Calls of the public methods in any order, on the nodes of a NetworkSimulator.
TxInputs == {Transaction(Address(0), Address(1), tx_made + 1, clock)}

\* Blocks built by somebody else on the head of a chain: one that links but
\* carries a wrong index, one that does not link.
Forged(bc) ==
    {Block(latest_block(bc).index + 2, <<>>, latest_block(bc).hash, "mallory", clock),
     Block(latest_block(bc).index + 1, <<>>, "0", "mallory", clock)}

\* A block one of whose hashed fields was altered after construction.
Tampered(b, bc) ==
    {[b EXCEPT !.index = @ + 1],
     [b EXCEPT !.timestamp = @ + 1],
     [b EXCEPT !.transactions = IF @ = <<>>
                                THEN <<to_dict(Transaction("a", "b", 1, 0))>>
                                ELSE Tail(@)],
     [b EXCEPT !.previous_hash = IF @ = latest_block(bc).hash
                                 THEN "0" ELSE latest_block(bc).hash],
     [b EXCEPT !.validator = "mallory_"]}

\* The block propose_block has just returned, if it was the last call.
JustProposed ==
    IF call.op = "propose_block" /\ call.result # <<>> THEN {call.result[1]} ELSE {}

\* The blocks offered to add_block and validate_and_add_block of node n.
Offered(n) ==
    JustProposed \cup Forged(ChainOf(n))
    \cup UNION {Tampered(b, ChainOf(n)) : b \in JustProposed}

\* The nodes the driver hands transactions to.
ReceiveTargets == {0}

ApiReceive ==
    /\ tx_made < MaxTx
    /\ \E n \in ReceiveTargets, tx \in TxInputs : receive_transaction(n, tx)
    /\ tx_made' = tx_made + 1
    /\ UNCHANGED <<clock, simVars>>

\* A transaction handed to a node that already holds it (sampled: the first
\* transaction made, while it is the only one pending there).
Redelivered(n) ==
    IF tx_made = 1 /\ Len(nodes[n].mempool) = 1 THEN {nodes[n].mempool[1]} ELSE {}

ApiRedeliver ==
    /\ \E n \in ReceiveTargets : \E tx \in Redelivered(n) : receive_transaction(n, tx)
    /\ UNCHANGED <<clock, tx_made, simVars>>

ApiPropose ==
    /\ \E n \in NodeIds : propose_block(n)
    /\ UNCHANGED <<clock, tx_made, simVars>>

ApiAddBlock ==
    /\ \E n \in NodeIds :
          /\ Len(ChainOf(n).chain) < MaxChain
          /\ \E b \in Offered(n) : add_block(n, b)
    /\ UNCHANGED <<clock, tx_made, simVars>>

ApiValidate ==
    /\ \E n \in NodeIds :
          /\ Len(ChainOf(n).chain) < MaxChain
          /\ \E b \in Offered(n) : validate_and_add_block(n, b)
    /\ UNCHANGED <<clock, tx_made, simVars>>

Next == ApiReceive \/ ApiRedeliver \/ ApiPropose \/ ApiAddBlock \/ ApiValidate

Spec == Init /\ [][Next]_vars

\* ================================================================ claims
Chain(n) == ChainOf(n).chain

HeadOf(n) == latest_block(ChainOf(n))

\* The step makes a call of operation op.
Made(op) == call'.op = op

\* C1: in every state reached by calls of receive_transaction, propose_block,
\* add_block and validate_and_add_block, with arbitrary blocks offered, every
\* adjacent pair (prev, next) of every node's chain has
\* next.previous_hash = prev.hash.
HashLinkage ==
    \A n \in NodeIds : \A k \in 1 .. (Len(Chain(n)) - 1) :
        Chain(n)[k + 1].previous_hash = Chain(n)[k].hash

\* A block whose stored hash is stale went through add_block and sits at the head.
HashLinkageWitness ==
    /\ call.op = "add_block"
    /\ call.ok
    /\ Len(Chain(call.node)) >= 2
    /\ HeadOf(call.node) = call.block[1]
    /\ ~hash_is_intact(call.block[1])

\* C2: an append made through one node (its add_block or its
\* validate_and_add_block) leaves every other node's chain unchanged.
OwnChainReplica ==
    [][(Made("add_block") \/ Made("validate_and_add_block"))
         => \A m \in NodeIds \ {call'.node} : Chain(m)' = Chain(m)]_vars

\* C3: at the end of a round in which a block was proposed and all nodes began
\* with identical chains, every node has applied the block, and every chain is
\* one block longer than at the start, with the proposed block's hash at its head.
HappyPathConvergence ==
    (/\ pc = "broadcast"
     /\ cursor = NumNodes
     /\ \A n, m \in NodeIds : start[n] = start[m])
    => \A n \in NodeIds :
          /\ outcome[n] = "applied"
          /\ Len(Chain(n)) = start[n].len + 1
          /\ HeadOf(n).hash = new_block[1].hash

\* C4: a non-proposer node that has had its turn in the broadcast has applied
\* the block exactly if its chain head at the start of the round was the
\* block's previous_hash, whatever the other nodes did.
RoundIsolation ==
    pc = "broadcast" =>
        \A n \in NodeIds :
            (n < cursor /\ n # validator) =>
                (outcome[n] = "applied"
                    <=> start[n].hash = new_block[1].previous_hash)

\* C5: add_block(block) returns success and appends the block as the new last
\* element iff block.previous_hash is the hash of the latest block at call
\* time; otherwise it returns failure and the chain is unchanged.
AddBlockContract ==
    [][\A n \in NodeIds : (Made("add_block") /\ call'.node = n) =>
         LET b == call'.block[1]
         IN  IF b.previous_hash = HeadOf(n).hash
             THEN call'.ok /\ Chain(n)' = Append(Chain(n), b)
             ELSE ~call'.ok /\ Chain(n)' = Chain(n)]_vars

\* add_block has turned down a block that does not link to the head.
AddBlockWitness ==
    /\ call.op = "add_block"
    /\ ~call.ok
    /\ call.block[1].previous_hash # HeadOf(call.node).hash

\* C6: validate_and_add_block(block) returns success iff block.hash is the hash
\* recomputed from the block's fields and block.previous_hash is the hash of
\* the node's chain head; on success the block is the new head; a block one of
\* whose hashed fields was altered after construction is rejected.
ValidateContract ==
    [][\A n \in NodeIds : (Made("validate_and_add_block") /\ call'.node = n) =>
         LET b == call'.block[1]
         IN  /\ call'.ok <=> (/\ b.hash = calculate_hash(b)
                              /\ b.previous_hash = HeadOf(n).hash)
             /\ call'.ok => Chain(n)' = Append(Chain(n), b)
             /\ \A c \in JustProposed \cup Forged(ChainOf(n)) :
                    b \in Tampered(c, ChainOf(n)) => ~call'.ok]_vars

\* A block that links to the head, with a field altered, was rejected.
ValidateWitness ==
    /\ call.op = "validate_and_add_block"
    /\ ~call.ok
    /\ call.block[1].previous_hash = HeadOf(call.node).hash
    /\ call.block[1].hash # calculate_hash(call.block[1])

\* C7: a validate_and_add_block that fails leaves the node's chain and mempool
\* (and every other node's) as they were, and returns the failure.
FailedValidateFrame ==
    [][(Made("validate_and_add_block") /\ ~call'.ok)
         => /\ nodes' = nodes
            /\ blockchains' = blockchains]_vars

\* A node with pending transactions has rejected a block that does not link.
FailedValidateWitness ==
    /\ call.op = "validate_and_add_block"
    /\ ~call.ok
    /\ nodes[call.node].mempool # <<>>
    /\ hash_is_intact(call.block[1])

\* C8: propose_block on a mempool [t1..tn], n >= 1, returns a block whose
\* transactions are the first min(5, n) entries in order, and leaves the
\* entries after them in the mempool, in order.
MempoolDrain ==
    [][(Made("propose_block") /\ nodes[call'.node].mempool # <<>>) =>
         LET n == call'.node
             before == nodes[n].mempool
             taken == IF Len(before) < 5 THEN Len(before) ELSE 5
         IN  /\ Len(call'.result) = 1
             /\ call'.result[1].transactions
                   = [k \in 1 .. taken |-> to_dict(before[k])]
             /\ nodes'[n].mempool
                   = [k \in 1 .. (Len(before) - taken) |-> before[k + taken]]]_vars

\* A proposal took five transactions and left some behind.
MempoolDrainWitness ==
    /\ call.op = "propose_block"
    /\ call.result # <<>>
    /\ Len(call.result[1].transactions) = 5
    /\ nodes[call.node].mempool # <<>>

\* C9: propose_block on an empty mempool returns no block and leaves the
\* mempool as it was; propose_block never changes a chain.
ProposeFrame ==
    [][Made("propose_block") =>
         /\ blockchains' = blockchains
         /\ nodes[call'.node].mempool = <<>>
               => (call'.result = <<>> /\ nodes' = nodes)]_vars

\* A proposal on an empty mempool returned nothing, on a chain that has grown.
ProposeFrameWitness ==
    /\ call.op = "propose_block"
    /\ call.result = <<>>
    /\ nodes[call.node].mempool = <<>>
    /\ Len(Chain(call.node)) >= 2

\* C10: a block returned by propose_block has the index of the proposer's chain
\* head plus one, the hash of that head as previous_hash, and the proposer's
\* address as validator.
ProposedBlockFields ==
    [][(Made("propose_block") /\ call'.result # <<>>) =>
         LET n == call'.node
             b == call'.result[1]
         IN  /\ b.index = HeadOf(n).index + 1
             /\ b.previous_hash = HeadOf(n).hash
             /\ b.validator = nodes[n].address]_vars

\* A block was proposed on top of a block that is not the genesis block.
ProposedBlockWitness ==
    /\ call.op = "propose_block"
    /\ call.result # <<>>
    /\ call.result[1].index >= 2
    /\ call.result[1].previous_hash = HeadOf(call.node).hash

\* C11: in every round in which the selected validator returned a block, the
\* proposer's own add_block of that block returns success.
ProposerSelfAppend ==
    (pc = "broadcast" /\ validator < cursor) => outcome[validator] = "applied"

\* Every transaction snapshot held in the blocks of a chain, with its place.
Included(n) ==
    {p \in (1 .. Len(Chain(n))) \X (1 .. BatchSize) :
        p[2] <= Len(Chain(n)[p[1]].transactions)}

\* C12: in every state reached by run_simulation, no transaction appears in
\* more than one block of any chain.
ConsumedAtMostOnce ==
    \A n \in NodeIds : \A p, q \in Included(n) :
        p[1] # q[1] =>
            Chain(n)[p[1]].transactions[p[2]] # Chain(n)[q[1]].transactions[q[2]]

\* Position 0 holds the genesis block, and every later block's index is its
\* predecessor's index + 1.
IndexedByPosition(n) ==
    /\ Chain(n)[1].index = 0
    /\ Chain(n)[1].validator = "genesis"
    /\ \A k \in 1 .. (Len(Chain(n)) - 1) :
          Chain(n)[k + 1].index = Chain(n)[k].index + 1

\* A block as propose_block returns it: built by a node, and not altered since.
FromPropose(b) ==
    /\ \E n \in NodeIds : b.validator = nodes[n].address
    /\ hash_is_intact(b)

\* C13 (as claimed): in every chain reached by add_block and
\* validate_and_add_block calls, position 0 is the genesis block with index 0
\* and every later block's index is its predecessor's index + 1.
IndexInvariant == \A n \in NodeIds : IndexedByPosition(n)

\* C13 (amended): the same, for every chain whose blocks after the genesis
\* block were all returned by propose_block.
IndexInvariantOfProposed ==
    \A n \in NodeIds :
        (\A k \in 2 .. Len(Chain(n)) : FromPropose(Chain(n)[k]))
            => IndexedByPosition(n)

\* validate_and_add_block has put a proposed block on a chain.
IndexInvariantWitness ==
    /\ call.op = "validate_and_add_block"
    /\ call.ok
    /\ Len(Chain(call.node)) >= 2
    /\ \A k \in 2 .. Len(Chain(call.node)) : FromPropose(Chain(call.node)[k])

\* C14: every step leaves each node's chain a prefix of what it becomes; the
\* chain is never empty and the genesis block (index 0, no transactions,
\* previous_hash "0", validator "genesis") stays at position 0.
AppendOnly ==
    [][\A n \in NodeIds :
         LET before == Chain(n)
             after  == Chain(n)'
         IN  /\ Len(after) >= Len(before)
             /\ SubSeq(after, 1, Len(before)) = before
             /\ Len(after) >= 1
             /\ after[1].index = 0
             /\ after[1].transactions = <<>>
             /\ after[1].previous_hash = "0"
             /\ after[1].validator = "genesis"]_vars

\* add_block has appended a block built elsewhere, behind the genesis block.
AppendOnlyWitness ==
    /\ call.op = "add_block"
    /\ call.ok
    /\ hash_is_intact(call.block[1])
    /\ Len(Chain(call.node)) >= 2
    /\ Chain(call.node)[1] = GenesisBlock(0)

\* C17: receive_transaction appends exactly one entry at the end of the node's
\* mempool, with no duplicate check, and changes nothing else; any other step
\* only takes entries from the front, so the mempool is the received and not
\* yet proposed transactions in arrival order.
MempoolFifo ==
    [][\A n \in NodeIds :
         LET before == nodes[n].mempool
             after  == nodes'[n].mempool
         IN  IF Made("receive_transaction") /\ call'.node = n
             THEN /\ Len(after) = Len(before) + 1
                  /\ SubSeq(after, 1, Len(before)) = before
                  /\ nodes' = [nodes EXCEPT ![n].mempool = after]
                  /\ blockchains' = blockchains
             ELSE \E k \in 0 .. Len(before) :
                     after = SubSeq(before, k + 1, Len(before))]_vars

\* A node has received a transaction it already held: it is pending twice.
MempoolFifoWitness ==
    /\ call.op = "receive_transaction"
    /\ Len(nodes[call.node].mempool) >= 2
    /\ LET m == nodes[call.node].mempool IN m[Len(m)] = m[Len(m) - 1]

\* C15: in every state of the simulation, every block held in a node's chain
\* and the block propose_block has just constructed carry the hash that
\* calculate_hash gives for their stored fields.
StoredHashIntegrity ==
    /\ \A n \in NodeIds : \A k \in 1 .. Len(Chain(n)) : hash_is_intact(Chain(n)[k])
    /\ new_block # <<>> => hash_is_intact(new_block[1])

\* A block with transactions has been constructed, broadcast and appended.
StoredHashWitness ==
    /\ pc = "broadcast"
    /\ cursor = NumNodes
    /\ new_block[1].transactions # <<>>
    /\ HeadOf(0) = new_block[1]

\* The apply step run_simulation makes for the node at position n.
ApplyStep(n) == IF n = validator THEN "add_block" ELSE "validate_and_add_block"

SkippedRound ==
    [][(pc = "propose" /\ nodes[validator].mempool = <<>>) =>
          /\ Made("propose_block")
          /\ call'.result = <<>>
          /\ nodes' = nodes
          /\ blockchains' = blockchains
          /\ new_block' = <<>>
          /\ pc' = "round"
          /\ round' = round + 1]_vars

\* A round was skipped while another node still had transactions pending and
\* the chain already held a block.
SkippedRoundWitness ==
    /\ pc = "round"
    /\ call.op = "propose_block"
    /\ call.result = <<>>
    /\ \E n \in NodeIds : nodes[n].mempool # <<>>
    /\ Len(Chain(call.node)) >= 2

\* How many positions of a chain hold the block.
Occurrences(chain, block) == Cardinality({k \in 1 .. Len(chain) : chain[k] = block})

\* The chain holds one block per round in which a block was proposed; during
\* the node loop the proposed block is on the chain once as soon as the first
\* node has had its turn.
OnePerProposal(n) ==
    IF pc = "broadcast"
    THEN /\ Occurrences(Chain(n), new_block[1]) = (IF cursor = 0 THEN 0 ELSE 1)
         /\ Len(Chain(n)) = (IF cursor = 0 THEN proposals ELSE 1 + proposals)
    ELSE Len(Chain(n)) = 1 + proposals

\* C19: in run_simulation every block returned by propose_block is appended
\* to the chain exactly once in its round, wherever the proposer stands in
\* the node list, so the chain length is 1 + the number of rounds in which a
\* block was proposed; the transactions propose_block removed from the
\* proposer's mempool are the transactions of that block.
AppendedExactlyOnce ==
    [][/\ \A n \in NodeIds : OnePerProposal(n)'
       /\ (pc = "propose" /\ pc' = "broadcast") =>
            LET before == nodes[validator].mempool
                after  == nodes'[validator].mempool
                taken  == SubSeq(before, 1, Len(before) - Len(after))
            IN  /\ before = taken \o after
                /\ taken # <<>>
                /\ new_block'[1].transactions =
                       [k \in 1 .. Len(taken) |-> to_dict(taken[k])]]_vars

\* After a skipped round and a round with a block, the chain holds the genesis
\* block and that block.
AppendedExactlyOnceWitness ==
    /\ pc = "round"
    /\ proposals >= 1
    /\ proposals < round
    /\ Len(Chain(0)) = 1 + proposals

=============================================================================
